---- MODULE Spec2Model ----
(***************************************************************************)
(* Model of the Scryfall fetch-filter-load client (src/client.go).         *)
(*                                                                         *)
(* A pass (queryAndInsertCards) searches the remote API, fetches the       *)
(* printings of every search result, applies the filter rule               *)
(* (shouldIncludeCard) and upserts the card and its printings into the     *)
(* two tables of src/schema.sql.  The remote API and the relational store  *)
(* are the environment: every request and every upsert may fail.           *)
(***************************************************************************)
EXTENDS Integers, Sequences, FiniteSets, TLC

(***************************************************************************)
(* Bounds of the model.                                                    *)
(***************************************************************************)
\* longest search result list (results.Data)
MaxResults == 2
\* longest printing list (printings.Data) of one search result
MaxPrintings == 2

\* the longest games list and finishes list handed to a pure function
MaxLen == 2

(***************************************************************************)
(* Wire model (src/types.go).  A nil pointer is the token NULL.            *)
(***************************************************************************)
NULL == "nil"

OracleIds == {"o1", "o2"}
PrintIds == {"p1", "p2"}

\* Card.Rarity, Card.Games, Card.Finishes, Card.Artist of two printings the
\* filter accepts ...
KindRare ==
  [rarity |-> "rare", games |-> <<"arena", "paper">>, finishes |-> <<"nonfoil", "foil">>,
   artist |-> NULL]
KindMythic ==
  [rarity |-> "mythic", games |-> <<"paper">>, finishes |-> <<"etched", "Foil">>,
   artist |-> "Ann"]
\* ... and of a printing it rejects
KindUncommon ==
  [rarity |-> "uncommon", games |-> <<"paper", "arena">>, finishes |-> <<"nonfoil">>,
   artist |-> "Ann"]

\* ... and of a printing whose games list names one platform twice
KindTwice ==
  [rarity |-> "rare", games |-> <<"mtgo", "mtgo">>, finishes |-> <<"foil">>,
   artist |-> NULL]

\* A search result: the fields of Card that UpsertCardParams reads.  A []string
\* is the sequence of its elements; a nil slice and an empty slice, which the
\* program tells apart nowhere (it reads len(val) only), are both <<>>.
WireCards(oracleIds, manaCosts, colorLists) ==
  [oracle_id : oracleIds, mana_cost : manaCosts, colors : colorLists,
   color_identity : colorLists, all_parts : {NULL}]

\* A printing: the fields of Card that the filter and UpsertPrintingParams read.
WirePrintings(ids, oracleIds, kinds) ==
  { [id |-> i, oracle_id |-> o, rarity |-> k.rarity, games |-> k.games,
     finishes |-> k.finishes, artist |-> k.artist, preview |-> NULL] :
      i \in ids, o \in oracleIds, k \in kinds }

RECURSIVE SeqsUpTo(_, _)
SeqsUpTo(S, n) ==
  IF n = 0 THEN {<<>>}
  ELSE LET shorter == SeqsUpTo(S, n - 1)
       IN shorter \cup {Append(s, x) : s \in {t \in shorter : Len(t) = n - 1}, x \in S}

\* What the remote API may answer when the keys of the rows are what varies:
\* two oracle ids, two printing ids, a printing of another card, nil oracle ids.
KeyCards == WireCards(OracleIds \cup {NULL}, {NULL}, {<<>>})
KeyPrintings == WirePrintings(PrintIds, OracleIds \cup {NULL}, {KindRare, KindUncommon})
KeyLists == SeqsUpTo(KeyPrintings, MaxPrintings)

\* What it may answer when the columns of one row are what varies: one card and
\* one printing, fetched again and again with other (or absent) column values.
ColCards == WireCards({"o1", NULL}, {NULL, "{R}", "{G}"}, {<<>>, <<"R">>})
ColPrintings == WirePrintings({"p1"}, {"o1", NULL}, {KindRare, KindMythic, KindUncommon})
ColLists == SeqsUpTo(ColPrintings, MaxPrintings)

\* What it may answer when the games of the printings of one card are what
\* varies: two printings of one card, each with any of four games lists.
GameCards == WireCards({"o1", NULL}, {NULL}, {<<>>})
GamePrintings ==
  WirePrintings(PrintIds, {"o1"}, {KindRare, KindMythic, KindTwice, KindUncommon})
GameLists == SeqsUpTo(GamePrintings, MaxPrintings)

\* What it may answer when the paging of the lists is what varies: one card
\* and one printing, in lists that are the last page or have a page beyond.
PageCards == WireCards({"o1", NULL}, {NULL}, {<<>>})
PagePrintings == WirePrintings({"p1"}, {"o1", NULL}, {KindRare, KindUncommon})
PageLists == SeqsUpTo(PagePrintings, MaxPrintings)

NoCard ==
  [oracle_id |-> NULL, mana_cost |-> NULL, colors |-> <<>>, color_identity |-> <<>>,
   all_parts |-> NULL]

(***************************************************************************)
(* Helper functions of src/client.go.                                      *)
(***************************************************************************)
\* A variant of ptrToNullString that stores a nil pointer as a present, empty
\* string.
ptrToNullStringEmpty(s) ==
  IF s = NULL THEN [Valid |-> TRUE, String |-> ""] ELSE [Valid |-> TRUE, String |-> s]

\* sql.NullString from a *string
ptrToNullString(s) ==
  IF s = NULL THEN [Valid |-> FALSE, String |-> ""] ELSE [Valid |-> TRUE, String |-> s]

\* json.Marshal of a non-empty []string, as the sequence of its tokens
RECURSIVE jsonElements(_)
jsonElements(val) ==
  IF Len(val) = 0 THEN <<>>
  ELSE IF Len(val) = 1 THEN <<val[1]>>
  ELSE <<val[1], ",">> \o jsonElements(Tail(val))

\* A variant of toJSONStringDirect that marshals the empty list as json.Marshal
\* marshals a nil slice.
toJSONStringDirectNull(val) ==
  IF Len(val) = 0 THEN <<"null">> ELSE <<"[">> \o jsonElements(val) \o <<"]">>

\* toJSONStringDirect on a []string: "[]" for the empty list, else the JSON array
toJSONStringDirect(val) ==
  IF Len(val) = 0 THEN <<"[", "]">> ELSE <<"[">> \o jsonElements(val) \o <<"]">>

\* the keys a map[string]string of the wire model may hold, in the order in
\* which json.Marshal writes them
MapKeys == <<"eur", "usd">>

\* json.Marshal of a non-empty map[string]string, as the sequence of its tokens
RECURSIVE jsonMembers(_, _)
jsonMembers(val, keys) ==
  IF Len(keys) = 0 THEN <<>>
  ELSE IF Head(keys) \notin DOMAIN val THEN jsonMembers(val, Tail(keys))
  ELSE LET rest == jsonMembers(val, Tail(keys))
       IN <<Head(keys), ":", val[Head(keys)]>> \o (IF rest = <<>> THEN <<>> ELSE <<",">> \o rest)

\* toJSONStringDirect on a map[string]string: "{}" for the empty map, else the
\* JSON object
toJSONStringDirectMap(val) ==
  IF DOMAIN val = {} THEN <<"{", "}">> ELSE <<"{">> \o jsonMembers(val, MapKeys) \o <<"}">>

\* toJSONString on a []string: an invalid sql.NullString for the empty list,
\* else a valid one that holds the JSON array
toJSONString(val) ==
  IF Len(val) = 0 THEN [Valid |-> FALSE, String |-> <<>>]
  ELSE [Valid |-> TRUE, String |-> <<"[">> \o jsonElements(val) \o <<"]">>]

\* toJSONString on a []RelatedCard, a []CardFace or a *CardPreview, types that
\* none of its cases names: the interface value that holds a nil slice or a nil
\* pointer is not nil, and json.Marshal writes null for it; a value that is not
\* nil is given by the tokens json.Marshal writes for it
toJSONStringOther(val) ==
  IF val = NULL THEN [Valid |-> TRUE, String |-> <<"null">>]
  ELSE [Valid |-> TRUE, String |-> val]

\* A variant of containsFinish that compares without regard to case.
containsFinishFold(finishes, finish) ==
  \E i \in 1..Len(finishes) :
    finishes[i] = finish \/ (finishes[i] = "Foil" /\ finish = "foil")

\* for _, f := range finishes { if f == finish { return true } }; return false
RECURSIVE containsFinish(_, _)
containsFinish(finishes, finish) ==
  IF Len(finishes) = 0 THEN FALSE
  ELSE IF Head(finishes) = finish THEN TRUE
  ELSE containsFinish(Tail(finishes), finish)

\* A variant of isArenaSet that looks at the first game only.
isArenaSetFirst(games) == Len(games) > 0 /\ games[1] = "arena"

RECURSIVE isArenaSet(_)
isArenaSet(games) ==
  IF Len(games) = 0 THEN FALSE
  ELSE IF Head(games) = "arena" THEN TRUE
  ELSE isArenaSet(Tail(games))

\* A variant of shouldIncludeCard that looks at the first printing only.
shouldIncludeCardHead(printingList) ==
  IF Len(printingList) = 0 THEN TRUE
  ELSE ~(/\ isArenaSet(Head(printingList).games)
         /\ Head(printingList).rarity \in {"common", "uncommon"})

RECURSIVE shouldIncludeCard(_)
shouldIncludeCard(printingList) ==
  IF Len(printingList) = 0 THEN TRUE
  ELSE IF isArenaSet(Head(printingList).games)
          /\ (Head(printingList).rarity = "common" \/ Head(printingList).rarity = "uncommon")
       THEN FALSE
  ELSE shouldIncludeCard(Tail(printingList))

\* scryfall.UpsertCardParams{...} as built from a search result
UpsertCardParams(c) ==
  [OracleID |-> c.oracle_id,
   AllParts |-> toJSONStringOther(c.all_parts),
   ColorIdentity |-> toJSONStringDirect(c.color_identity),
   Colors |-> toJSONString(c.colors),
   ManaCost |-> ptrToNullString(c.mana_cost)]

\* scryfall.UpsertPrintingParams{...} as built from a printing
UpsertPrintingParams(p) ==
  [ID |-> p.id,
   OracleID |-> p.oracle_id,
   Artist |-> ptrToNullString(p.artist),
   Finishes |-> toJSONStringDirect(p.finishes),
   Foil |-> containsFinish(p.finishes, "foil"),
   Nonfoil |-> containsFinish(p.finishes, "nonfoil"),
   Games |-> toJSONStringDirect(p.games),
   Rarity |-> p.rarity,
   Preview |-> toJSONStringOther(p.preview)]

(***************************************************************************)
(* The wire layer: the requests of makeRequest and the decoding of their   *)
(* responses (src/client.go, src/types.go).  A Go string is a string.      *)
(***************************************************************************)
APIBaseURL == "https://api.scryfall.com"
DefaultUserAgent == "MTGScryfallClient/1.0"
DefaultAccept == "application/json;q=0.9,*/*;q=0.8"

\* A JSON value of a response body, as far as the decoder tells values apart:
\* a member that is absent, null, a number, or a string.
JAbsent == [t |-> "absent", s |-> ""]
JNull == [t |-> "null", s |-> ""]
JNumber == [t |-> "number", s |-> ""]
JString(s) == [t |-> "string", s |-> s]

\* the Go string a string member decodes to; an absent or null member leaves ""
StrOf(v) == IF v.t = "string" THEN v.s ELSE ""

\* The URI strings of the model, each given by its parts.  Of the paths, one
\* holds an escaped slash, one a space (no URI of RFC 3986, yet a string
\* url.Parse takes), one a percent sign that starts no escape, and one a colon
\* in its first segment.
UriPaths ==
  {"", "/cards/search", "/cards/a%2Fb", "/cards/a b", "/cards/a%20b", "/cards/%zz", ":cards"}
UriParts ==
  {u \in [scheme : {"", "https"}, host : {"", "api.scryfall.com", "cdn.example"},
          rawpath : UriPaths, rawquery : {"", "q=x"}] :
     /\ (u.scheme = "") = (u.host = "")
     /\ u.rawpath = ":cards" => u.scheme = ""
     /\ u.rawpath = "" => u.rawquery = ""}

\* the string of a URI given by its parts
UriString(u) ==
  (IF u.scheme = "" THEN "" ELSE u.scheme \o "://" \o u.host)
    \o u.rawpath \o (IF u.rawquery = "" THEN "" ELSE "?" \o u.rawquery)

\* the strings a URI-bearing member may hold
UriStrings == {UriString(u) : u \in UriParts}

\* the parts of each of these strings
UriPartsOf == [s \in UriStrings |-> CHOOSE u \in UriParts : UriString(u) = s]

\* what unescape(path, encodePath) makes of a path without a bad escape
PathUnescape(rawpath) ==
  IF rawpath = "/cards/a%2Fb" THEN "/cards/a/b"
  ELSE IF rawpath = "/cards/a%20b" THEN "/cards/a b"
  ELSE rawpath

\* what escape(path, encodePath) makes of a path that is no valid encoding
PathEscapeRaw(rawpath) == IF rawpath = "/cards/a b" THEN "/cards/a%20b" ELSE rawpath

\* url.Parse(s): the error for a percent sign that starts no escape in the path
\* and for a colon in the first segment of a string without a scheme; else the
\* parts, with the path unescaped
urlParse(s) ==
  LET u == UriPartsOf[s]
  IN IF u.rawpath = ":cards"
       THEN [err |-> "missing protocol scheme", Scheme |-> "", Host |-> "", Path |-> "",
             RawPath |-> "", RawQuery |-> ""]
     ELSE IF u.rawpath = "/cards/%zz"
       THEN [err |-> "invalid URL escape", Scheme |-> "", Host |-> "", Path |-> "",
             RawPath |-> "", RawQuery |-> ""]
     ELSE [err |-> NULL, Scheme |-> u.scheme, Host |-> u.host,
           Path |-> PathUnescape(u.rawpath), RawPath |-> u.rawpath,
           RawQuery |-> u.rawquery]

\* (*url.URL).String() of a URL that url.Parse returned without an error: the
\* scheme and the host, EscapedPath() (RawPath where it is a valid encoding of
\* Path, else the escaped Path), and the query where there is one
urlString(u) ==
  (IF u.Scheme = "" THEN "" ELSE u.Scheme \o "://" \o u.Host)
    \o PathEscapeRaw(u.RawPath) \o (IF u.RawQuery = "" THEN "" ELSE "?" \o u.RawQuery)

\* the members of a card object that the decoder reads as Go strings, as a
\* *string, and as URI strings (in the order in which Card.UnmarshalJSON parses
\* them); the uri of the related card of all_parts and the source_uri of preview
StringFields == {"id", "name"}
PtrFields == {"oracle_id"}
UriFields ==
  {"prints_search_uri", "rulings_uri", "scryfall_uri", "uri", "scryfall_set_uri",
   "set_search_uri", "set_uri"}
RelatedURI == "all_parts.uri"
SourceURI == "preview.source_uri"
CardFields == StringFields \cup PtrFields \cup UriFields \cup {RelatedURI, SourceURI}

\* json.Unmarshal(data, &aux) in Card.UnmarshalJSON: a member of another JSON
\* type than its Go field is an error, and so is an error of
\* RelatedCard.UnmarshalJSON (which parses the uri, absent or not) and of
\* CardPreview.UnmarshalJSON (which parses source_uri unless it is nil)
cardAuxErr(body) ==
  \/ \E f \in CardFields : body[f].t = "number"
  \/ urlParse(StrOf(body[RelatedURI])).err # NULL
  \/ body[SourceURI].t = "string" /\ urlParse(body[SourceURI].s).err # NULL

\* Card.UnmarshalJSON: the error, and the fields ID, Name and OracleID of the
\* card it fills
cardUnmarshalJSON(body) ==
  [err |-> IF cardAuxErr(body) THEN "json"
           ELSE IF \E f \in UriFields : urlParse(StrOf(body[f])).err # NULL THEN "url"
           ELSE NULL,
   val |-> [ID |-> StrOf(body["id"]), Name |-> StrOf(body["name"]),
            OracleID |-> IF body["oracle_id"].t = "string" THEN body["oracle_id"].s
                         ELSE NULL]]

\* var card Card
ZeroCard == [ID |-> "", Name |-> "", OracleID |-> NULL]

\* A variant of makeRequest that takes every status from 200 to 299 for success.
makeRequestAny2xx(c, endpoint, response, zero, decoded) ==
  [req |-> [Method |-> "GET", URL |-> c.baseURL \o endpoint,
            UserAgent |-> c.userAgent, Accept |-> c.accept],
   err |-> IF response.doErr THEN "transport"
           ELSE IF response.status \div 100 # 2 THEN "status"
           ELSE decoded.err,
   result |-> IF response.doErr \/ response.status \div 100 # 2 THEN zero ELSE decoded.val]

\* makeRequest: the request it sends, the error it returns and the value it
\* leaves in *result, which held zero before the call; decoded is what
\* json.NewDecoder(resp.Body).Decode(result) makes of the body
makeRequest(c, endpoint, response, zero, decoded) ==
  [req |-> [Method |-> "GET", URL |-> c.baseURL \o endpoint,
            UserAgent |-> c.userAgent, Accept |-> c.accept],
   err |-> IF response.doErr THEN "transport"
           ELSE IF response.status # 200 THEN "status"
           ELSE decoded.err,
   result |-> IF response.doErr \/ response.status # 200 THEN zero ELSE decoded.val]

\* NewClientWithOptions(co), the store apart
NewClientWithOptions(co) ==
  [baseURL |-> co.APIURL, userAgent |-> co.UserAgent, accept |-> co.Accept,
   client |-> co.Client]

\* url.PathEscape(id) for the ids of the model
PathEscape(id) == IF id = "a/b" THEN "a%2Fb" ELSE id

\* getCard(id) on the given response
getCard(c, id, response) ==
  makeRequest(c, "/cards/" \o PathEscape(id), response, ZeroCard,
              cardUnmarshalJSON(response.body))

\* the cards of data that are decoded when the decoding of the array ends: all
\* of them, or those before the first one whose decoding fails
RECURSIVE cardsDecoded(_)
cardsDecoded(data) ==
  IF Len(data) = 0 \/ cardUnmarshalJSON(Head(data)).err # NULL THEN <<>>
  ELSE <<cardUnmarshalJSON(Head(data)).val>> \o cardsDecoded(Tail(data))

\* List.UnmarshalJSON: json.Unmarshal(data, &aux), which decodes every card of
\* data with Card.UnmarshalJSON, then url.Parse of next_page unless it is nil
listUnmarshalJSON(body) ==
  [err |-> IF \/ \E i \in 1..Len(body.data) : cardUnmarshalJSON(body.data[i]).err # NULL
              \/ body.next_page.t = "number"
             THEN "json"
           ELSE IF body.next_page.t = "string" /\ urlParse(body.next_page.s).err # NULL
             THEN "url"
           ELSE NULL,
   val |-> [Data |-> cardsDecoded(body.data), HasMore |-> body.has_more]]

\* var list List
ZeroList == [Data |-> <<>>, HasMore |-> FALSE]

\* the search query of queryAndInsertCards, and url.QueryEscape of it
SearchQuery == "(game:paper game:mtgo -game:arena in:common or in:uncommon) game:arena r>=rare"
QueryEscape(query) ==
  IF query = SearchQuery
  THEN "%28game%3Apaper+game%3Amtgo+-game%3Aarena+in%3Acommon+or+in%3Auncommon%29+game%3Aarena+r%3E%3Drare"
  ELSE query

\* searchCards(query) on the given response
searchCards(c, query, response) ==
  makeRequest(c, "/cards/search?q=" \o QueryEscape(query), response, ZeroList,
              listUnmarshalJSON(response.body))

\* the request of a call that sent none
NoReq == [Method |-> "", URL |-> "", UserAgent |-> "", Accept |-> ""]

\* getCardPrintings(printsSearchURI) on the given response: no request when
\* url.Parse fails, else the request for the path and the query of the URI
getCardPrintings(c, printsSearchURI, response) ==
  LET parsedURL == urlParse(printsSearchURI)
      endpoint == parsedURL.Path \o "?" \o parsedURL.RawQuery
  IN IF parsedURL.err # NULL
       THEN [req |-> NoReq, err |-> parsedURL.err, result |-> ZeroList]
     ELSE makeRequest(c, endpoint, response, ZeroList, listUnmarshalJSON(response.body))

\* An application name is the sequence of its characters.
White == {" ", "\t", "\n"}

\* the string of a sequence of characters
RECURSIVE Join(_)
Join(chars) == IF Len(chars) = 0 THEN "" ELSE Head(chars) \o Join(Tail(chars))

\* A variant of strings.TrimSpace that trims the leading white space only.
RECURSIVE TrimLeft(_)
TrimLeft(chars) ==
  IF Len(chars) > 0 /\ Head(chars) \in White THEN TrimLeft(Tail(chars)) ELSE chars

\* strings.TrimSpace(appName)
RECURSIVE TrimRight(_)
TrimRight(chars) ==
  IF Len(chars) > 0 /\ chars[Len(chars)] \in White
  THEN TrimRight(SubSeq(chars, 1, Len(chars) - 1))
  ELSE chars

TrimSpace(chars) == TrimRight(TrimLeft(chars))

(***************************************************************************)
(* The relational store (src/schema.sql): a table is the set of its rows.  *)
(* No statement of the program enables foreign key enforcement (the        *)
(* database is opened without a pragma), so the store accepts any          *)
(* oracle_id in a printings row.                                           *)
(***************************************************************************)
\* A variant of PrintingsPrimaryKey: the key is the pair of id and oracle_id.
PrintingsPrimaryKeyPair(row) == <<row.ID, row.OracleID>>

\* cards: oracle_id TEXT PRIMARY KEY NOT NULL
CardsPrimaryKey(row) == row.OracleID

\* printings: id TEXT PRIMARY KEY NOT NULL
PrintingsPrimaryKey(row) == row.ID

\* queries.UpsertCard: INSERT ... ON CONFLICT (primary key) DO UPDATE SET <every column>
UpsertCardRow(table, arg) ==
  {r \in table : CardsPrimaryKey(r) # CardsPrimaryKey(arg)} \cup {arg}

\* queries.UpsertPrinting: INSERT ... ON CONFLICT (primary key) DO UPDATE SET <every column>
UpsertPrintingRow(table, arg) ==
  {r \in table : PrintingsPrimaryKey(r) # PrintingsPrimaryKey(arg)} \cup {arg}

\* the text is a JSON array of strings: "[", elements with "," between, "]"
jsonArray(text) ==
  /\ Len(text) >= 2
  /\ text[1] = "["
  /\ text[Len(text)] = "]"
  /\ LET inner == SubSeq(text, 2, Len(text) - 1)
     IN /\ Len(inner) = 0 \/ Len(inner) % 2 = 1
        /\ \A i \in 1..Len(inner) :
             IF i % 2 = 0 THEN inner[i] = ","
             ELSE inner[i] \notin {",", "[", "]", "{", "}", ":", "null"}

\* the error of json.Unmarshal([]byte(text), &list): none for a JSON array of
\* strings and for null, one for every other text
jsonUnmarshalErr(text) == ~(jsonArray(text) \/ text = <<"null">>)

\* the list after json.Unmarshal([]byte(text), &list) into a nil list: the
\* elements of a JSON array of strings; for null and for a text that does not
\* parse the list stays nil
jsonUnmarshal(text) ==
  IF jsonArray(text)
  THEN SelectSeq(SubSeq(text, 2, Len(text) - 1), LAMBDA tok : tok # ",")
  ELSE <<>>

Range(s) == {s[i] : i \in 1..Len(s)}

\* every order in which the elements of a set can be listed
RECURSIVE PermsOf(_)
PermsOf(S) ==
  IF S = {} THEN {<<>>}
  ELSE UNION {{<<x>> \o rest : rest \in PermsOf(S \ {x})} : x \in S}

VARIABLES
  cards,       \* table cards
  printings,   \* table printings
  pc,          \* where queryAndInsertCards stands
  remaining,   \* search results not yet processed (the rest of results.Data)
  card,        \* the loop variable of the outer loop
  prints,      \* printings.Data of the current search result
  pidx,        \* position of the inner loop in prints
  err,         \* the value queryAndInsertCards returned
  ev,          \* history: the step taken last
  rowFail,     \* history: an upsert of the current search result failed
  hit,         \* history: the last upsert replaced a row that held other values
  more,        \* results.HasMore and printings.HasMore of the lists fetched last
  loaded,      \* what loadCardsFromDatabase returned last
  remote,      \* the answers of a remote API that answers every pass alike
  passes,      \* history: the passes that have ended
  snap,        \* history: the store as the first pass left it
  fin,         \* the argument of a call of a pure function
  fout,        \* its result
  DefaultClientOptions,  \* the package variable DefaultClientOptions
  clients,     \* the clients made so far, each with the call that made it
  req          \* the request sent last, with the client that sent it

passVars ==
  <<cards, printings, pc, remaining, card, prints, pidx, err, ev, rowFail, hit, more>>

wireVars == <<DefaultClientOptions, clients, req>>

modeVars == <<remote, passes, snap, fin, fout, wireVars>>

vars == <<passVars, loaded, modeVars>>

NotLoaded == [err |-> NULL, cards |-> {}, called |-> FALSE]
NoCall == [fn |-> "none", arg |-> <<>>]
NoResult == [done |-> FALSE, val |-> FALSE]

\* var list List: HasMore of a list that no response was decoded into
NoMore == [results |-> FALSE, printings |-> FALSE]

\* the oracle_id values in cards, the id values in printings
CardKeys == {r.OracleID : r \in cards}
PrintingKeys == {r.ID : r \in printings}

\* var DefaultClientOptions = ClientOptions{...}
\* (an *http.Client is the name of the http.Client it points at)
InitOptions ==
  [APIURL |-> APIBaseURL, UserAgent |-> DefaultUserAgent, Accept |-> DefaultAccept,
   Client |-> "default http.Client"]

\* no request sent yet; else the client that sent the last one (its place in
\* clients), the function that made it, the prints_search_uri it was made for,
\* and the error the function returned
NoRequest ==
  [client |-> 0, fn |-> "none", sent |-> FALSE, Method |-> "", URL |-> "",
   UserAgent |-> "", Accept |-> "", uri |-> "", err |-> NULL]

InitStore ==
  /\ DefaultClientOptions = InitOptions
  /\ clients = <<>>
  /\ req = NoRequest
  /\ cards = {}
  /\ printings = {}
  /\ pc = "idle"
  /\ remaining = 0
  /\ card = NoCard
  /\ prints = <<>>
  /\ pidx = 0
  /\ err = NULL
  /\ ev = "none"
  /\ rowFail = FALSE
  /\ hit = FALSE
  /\ more = NoMore
  /\ loaded = NotLoaded
  /\ passes = 0
  /\ snap = <<{}, {}>>

Init ==
  /\ InitStore
  /\ remote = <<>>
  /\ fin = NoCall
  /\ fout = NoResult

\* the end of one iteration of the outer loop: on to the next search result
NextResult ==
  /\ pc' = "loop"
  /\ remaining' = remaining - 1
  /\ card' = NoCard
  /\ prints' = <<>>
  /\ pidx' = 0
  /\ rowFail' = FALSE
  /\ hit' = FALSE
  /\ more' = [more EXCEPT !.printings = FALSE]

\* A variant of FetchFilteredScryfallAPI that empties both tables before it
\* loads them again.
FetchFilteredScryfallAPITruncates ==
  /\ pc \in {"idle", "done"}
  /\ pc' = "search"
  /\ ev' = "call"
  /\ loaded' = NotLoaded
  /\ more' = NoMore
  /\ cards' = {}
  /\ printings' = {}
  /\ UNCHANGED <<remaining, card, prints, pidx, err, rowFail, hit, remote, fin, fout, wireVars>>

\* FetchFilteredScryfallAPI: a caller starts a pass once no pass is under way;
\* what an earlier read pass returned is looked at no more.  The history of
\* passes is left to the specification.
FetchFilteredScryfallAPI ==
  /\ pc \in {"idle", "done"}
  /\ pc' = "search"
  /\ ev' = "call"
  /\ loaded' = NotLoaded
  /\ more' = NoMore
  /\ UNCHANGED <<cards, printings, remaining, card, prints, pidx, err, rowFail, hit,
                 remote, fin, fout, wireVars>>

\* A variant of SearchFail that keeps the error and goes on as if one search
\* result had been returned.
SearchFailGoesOn ==
  /\ pc = "search"
  /\ pc' = "loop"
  /\ err' = "search error"
  /\ ev' = "searchFail"
  /\ remaining' = 1
  /\ UNCHANGED <<cards, printings, card, prints, pidx, rowFail, hit, more, loaded, modeVars>>

\* results, err := c.searchCards(searchQuery) fails: return the error
SearchFail ==
  /\ pc = "search"
  /\ pc' = "done"
  /\ err' = "search error"
  /\ ev' = "searchFail"
  /\ remaining' = 0
  /\ UNCHANGED <<cards, printings, card, prints, pidx, rowFail, hit, more, loaded, modeVars>>

\* results, err := c.searchCards(searchQuery) answers with a list of n results
\* and the given has_more
SearchOK(n, hasMore) ==
  /\ pc = "search"
  /\ pc' = "loop"
  /\ err' = NULL
  /\ ev' = "searchOK"
  /\ remaining' = n
  /\ more' = [more EXCEPT !.results = hasMore]
  /\ UNCHANGED <<cards, printings, card, prints, pidx, rowFail, hit, loaded, modeVars>>

\* A variant of FetchFail that asks for the printings of the same search result
\* again.
FetchFailRetries ==
  /\ pc = "loop"
  /\ remaining > 0
  /\ ev' = "fetchFail"
  /\ UNCHANGED <<cards, printings, pc, remaining, card, prints, pidx, err, rowFail, hit,
                 more, loaded, modeVars>>

\* c.getCardPrintings(card.PrintsSearchURI.String()) fails: log and continue
FetchFail ==
  /\ pc = "loop"
  /\ remaining > 0
  /\ ev' = "fetchFail"
  /\ NextResult
  /\ UNCHANGED <<cards, printings, err, loaded, modeVars>>

\* A variant of SkipCard that applies the filter only after the card row of the
\* search result is written.
SkipCardAfterUpsert(lists) ==
  /\ pc = "loop"
  /\ remaining > 0
  /\ ~(\A list \in lists : shouldIncludeCard(list))
  /\ cards' = UpsertCardRow(cards, UpsertCardParams([oracle_id |-> "o1", mana_cost |-> NULL,
                                                 colors |-> <<>>, color_identity |-> <<>>,
                                                 all_parts |-> NULL]))
  /\ ev' = "skipped"
  /\ NextResult
  /\ UNCHANGED <<printings, err, loaded, modeVars>>

\* the printings are fetched and the filter rejects them: continue
SkipCard(lists) ==
  /\ pc = "loop"
  /\ remaining > 0
  /\ ~(\A list \in lists : shouldIncludeCard(list))
  /\ ev' = "skipped"
  /\ NextResult
  /\ UNCHANGED <<cards, printings, err, loaded, modeVars>>

\* the printings are fetched, as a list with one of the given values of
\* has_more, and the filter accepts them
AcceptCard(cardSet, lists, flags) ==
  /\ pc = "loop"
  /\ remaining > 0
  /\ \E c \in cardSet, list \in lists, hasMore \in flags :
       /\ shouldIncludeCard(list)
       /\ card' = c
       /\ prints' = list
       /\ more' = [more EXCEPT !.printings = hasMore]
  /\ pc' = "upsertCard"
  /\ ev' = "accepted"
  /\ UNCHANGED <<cards, printings, remaining, pidx, err, rowFail, hit, loaded, modeVars>>

\* *card.OracleID or *printing.OracleID with a nil pointer: the run-time panic
\* ends the process where it stands
Panic ==
  /\ \/ pc = "upsertCard" /\ card.oracle_id = NULL
     \/ pc = "upsertPrinting" /\ pidx <= Len(prints) /\ prints[pidx].oracle_id = NULL
  /\ pc' = "panic"
  /\ ev' = "panic"
  /\ UNCHANGED <<cards, printings, remaining, card, prints, pidx, err, rowFail, hit,
                 more, loaded, modeVars>>

\* queries.UpsertCard fails: log and continue
UpsertCardFail ==
  /\ pc = "upsertCard"
  /\ card.oracle_id # NULL
  /\ ev' = "cardFail"
  /\ NextResult
  /\ UNCHANGED <<cards, printings, err, loaded, modeVars>>

\* queries.UpsertCard succeeds
UpsertCardOK ==
  /\ pc = "upsertCard"
  /\ card.oracle_id # NULL
  /\ cards' = UpsertCardRow(cards, UpsertCardParams(card))
  /\ hit' = (cards' # cards /\ card.oracle_id \in CardKeys)
  /\ pc' = "upsertPrinting"
  /\ pidx' = 1
  /\ ev' = "cardOK"
  /\ UNCHANGED <<printings, remaining, card, prints, err, rowFail, more, loaded, modeVars>>

\* queries.UpsertPrinting fails: log and continue with the next printing
UpsertPrintingFail ==
  /\ pc = "upsertPrinting"
  /\ pidx <= Len(prints)
  /\ prints[pidx].oracle_id # NULL
  /\ pidx' = pidx + 1
  /\ ev' = "printFail"
  /\ rowFail' = TRUE
  /\ hit' = FALSE
  /\ UNCHANGED <<cards, printings, pc, remaining, card, prints, err, more, loaded, modeVars>>

\* queries.UpsertPrinting succeeds
UpsertPrintingOK ==
  /\ pc = "upsertPrinting"
  /\ pidx <= Len(prints)
  /\ prints[pidx].oracle_id # NULL
  /\ printings' = UpsertPrintingRow(printings, UpsertPrintingParams(prints[pidx]))
  /\ hit' = (printings' # printings /\ prints[pidx].id \in PrintingKeys)
  /\ pidx' = pidx + 1
  /\ ev' = "printOK"
  /\ UNCHANGED <<cards, pc, remaining, card, prints, err, rowFail, more, loaded, modeVars>>

\* A variant of PrintingsDone that leaves the inner loop at any printing.
PrintingsDoneEarly ==
  /\ pc = "upsertPrinting"
  /\ ev' = "resultDone"
  /\ NextResult
  /\ UNCHANGED <<cards, printings, err, loaded, modeVars>>

\* the inner loop has run through printings.Data
PrintingsDone ==
  /\ pc = "upsertPrinting"
  /\ pidx > Len(prints)
  /\ ev' = "resultDone"
  /\ NextResult
  /\ UNCHANGED <<cards, printings, err, loaded, modeVars>>

\* the outer loop has run through results.Data: return nil
Return ==
  /\ pc = "loop"
  /\ remaining = 0
  /\ pc' = "done"
  /\ ev' = "return"
  /\ UNCHANGED <<cards, printings, remaining, card, prints, pidx, err, rowFail, hit, more,
                 loaded, modeVars>>

\* NewClientWithOptions in a new process, after a panic has ended the old one:
\* sql.Open opens the database file that process left behind
Restart ==
  /\ pc = "panic"
  /\ pc' = "idle"
  /\ ev' = "restart"
  /\ remaining' = 0
  /\ card' = NoCard
  /\ prints' = <<>>
  /\ pidx' = 0
  /\ err' = NULL
  /\ rowFail' = FALSE
  /\ hit' = FALSE
  /\ more' = NoMore
  /\ UNCHANGED <<cards, printings, loaded, modeVars>>

\* One step of a pass against a remote API that answers with any of the given
\* search results and printing lists, in lists with any of the given values of
\* has_more.
PassStep(cardSet, lists, flags) ==
  \/ SearchFail
  \/ \E n \in 0..MaxResults, hasMore \in flags : SearchOK(n, hasMore)
  \/ FetchFail
  \/ SkipCard(lists)
  \/ AcceptCard(cardSet, lists, flags)
  \/ Panic
  \/ UpsertCardFail
  \/ UpsertCardOK
  \/ UpsertPrintingFail
  \/ UpsertPrintingOK
  \/ PrintingsDone
  \/ Return

(***************************************************************************)
(* The read pass: loadCardsFromDatabase.                                   *)
(***************************************************************************)
\* queries.GetCardsWithPrintings: the rows of cards joined with their printings,
\* one row per printing, in any order
GetCardsWithPrintings ==
  LET joined == {p \in printings : p.OracleID \in CardKeys}
      rowOf(p) ==
        LET c == CHOOSE r \in cards : r.OracleID = p.OracleID
        IN [PrintingID |-> p.ID, OracleID |-> c.OracleID, ManaCost |-> c.ManaCost,
            ColorIdentity |-> c.ColorIdentity, Colors |-> c.Colors, Games |-> p.Games]
      rowsOf(order) == [i \in 1..Len(order) |-> rowOf(order[i])]
  IN {rowsOf(order) : order \in PermsOf(joined)}

\* the loop over cardPrintings: every cardMap it can end with (ranging over a
\* Go map yields the merged games in any order)
RECURSIVE cardMapOf(_, _)
cardMapOf(rows, cardMap) ==
  IF Len(rows) = 0 THEN {cardMap}
  ELSE LET row == Head(rows)
       IN IF row.OracleID \in DOMAIN cardMap
          THEN IF row.Games # <<>>
               THEN LET gameSet == Range(cardMap[row.OracleID].Games)
                                     \cup Range(jsonUnmarshal(row.Games))
                    IN UNION {cardMapOf(Tail(rows),
                                        [cardMap EXCEPT ![row.OracleID].Games = allGames]) :
                                allGames \in PermsOf(gameSet)}
               ELSE cardMapOf(Tail(rows), cardMap)
          ELSE LET new == [ID |-> row.OracleID,
                           OracleID |-> row.OracleID,
                           ManaCostSet |-> row.ManaCost.Valid,
                           ManaCost |-> row.ManaCost.String,
                           Games |-> IF row.Games # <<>> THEN jsonUnmarshal(row.Games)
                                     ELSE <<>>,
                           ColorIdentity |->
                             IF row.ColorIdentity # <<>>
                             THEN jsonUnmarshal(row.ColorIdentity) ELSE <<>>,
                           Colors |->
                             IF row.Colors.Valid /\ row.Colors.String # <<>>
                             THEN jsonUnmarshal(row.Colors.String) ELSE <<>>]
               IN cardMapOf(Tail(rows),
                            [k \in DOMAIN cardMap \cup {row.OracleID} |->
                               IF k = row.OracleID THEN new ELSE cardMap[k]])

\* What the pointers &row.OracleID and &row.ManaCost.String of a returned card
\* point at: the row of the card's own iteration where the build gives each
\* iteration its own loop variable, the last row where all iterations share one.
cardOf(entry, rows, shared) ==
  LET last == rows[Len(rows)]
  IN [ID |-> entry.ID,
      OracleID |-> IF shared THEN last.OracleID ELSE entry.OracleID,
      ManaCost |-> IF ~entry.ManaCostSet THEN NULL
                   ELSE IF shared THEN last.ManaCost.String ELSE entry.ManaCost,
      Games |-> entry.Games,
      ColorIdentity |-> entry.ColorIdentity,
      Colors |-> entry.Colors]

\* queries.GetCardsWithPrintings fails: return nil and the error
LoadCardsFail ==
  /\ pc \in {"idle", "done"}
  /\ loaded' = [err |-> "error loading cards", cards |-> {}, called |-> TRUE]
  /\ ev' = "loadFail"
  /\ UNCHANGED <<cards, printings, pc, remaining, card, prints, pidx, err, rowFail, hit, more,
                 modeVars>>

\* loadCardsFromDatabase returns the cards of cardMap
LoadCardsOK(shared) ==
  /\ pc \in {"idle", "done"}
  /\ \E rows \in GetCardsWithPrintings :
       \E cardMap \in cardMapOf(rows, [k \in {} |-> NoCard]) :
         loaded' = [err |-> NULL,
                    cards |-> {cardOf(cardMap[k], rows, shared) : k \in DOMAIN cardMap},
                    called |-> TRUE]
  /\ ev' = "loaded"
  /\ UNCHANGED <<cards, printings, pc, remaining, card, prints, pidx, err, rowFail, hit, more,
                 modeVars>>

(***************************************************************************)
(* Fetch passes and read passes, in any order, against a remote API and a  *)
(* store that may fail at any call.                                        *)
(***************************************************************************)
Next ==
  \/ FetchFilteredScryfallAPI /\ UNCHANGED <<passes, snap>>
  \/ PassStep(KeyCards, KeyLists, {FALSE})
  \/ Restart
  \/ LoadCardsFail
  \/ \E shared \in BOOLEAN : LoadCardsOK(shared)

Spec == Init /\ [][Next]_vars

NextColumns ==
  \/ FetchFilteredScryfallAPI /\ UNCHANGED <<passes, snap>>
  \/ PassStep(ColCards, ColLists, {FALSE})
  \/ Restart
  \/ LoadCardsFail
  \/ \E shared \in BOOLEAN : LoadCardsOK(shared)

SpecColumns == Init /\ [][NextColumns]_vars

\* The same passes where every remote request and every store call returns, so
\* that a pass that can take a step takes one.
SpecLive == Init /\ [][Next]_vars /\ WF_vars(PassStep(KeyCards, KeyLists, {FALSE}))

NextGames ==
  \/ FetchFilteredScryfallAPI /\ UNCHANGED <<passes, snap>>
  \/ PassStep(GameCards, GameLists, {FALSE})
  \/ Restart
  \/ LoadCardsFail
  \/ \E shared \in BOOLEAN : LoadCardsOK(shared)

SpecGames == Init /\ [][NextGames]_vars

NextPages ==
  \/ FetchFilteredScryfallAPI /\ UNCHANGED <<passes, snap>>
  \/ PassStep(PageCards, PageLists, BOOLEAN)
  \/ Restart
  \/ LoadCardsFail
  \/ \E shared \in BOOLEAN : LoadCardsOK(shared)

SpecPages == Init /\ [][NextPages]_vars

(***************************************************************************)
(* The pure functions, each called once on an argument from a bounded set. *)
(***************************************************************************)
PureGames == SeqsUpTo({"arena", "paper"}, MaxLen)
PureRarities == {"common", "uncommon", "rare", "Common"}
PureFinishes == SeqsUpTo({"foil", "nonfoil", "etched", "Foil"}, MaxLen)

\* printings as the filter reads them: games and rarity vary
FilterPrintings ==
  { [id |-> "p1", oracle_id |-> "o1", rarity |-> r, games |-> g, finishes |-> <<>>,
     artist |-> NULL, preview |-> NULL] : r \in PureRarities, g \in PureGames }

\* printings as the derivation of foil and nonfoil reads them: finishes vary
FinishPrintings ==
  { [id |-> "p1", oracle_id |-> "o1", rarity |-> "rare", games |-> <<"paper">>,
     finishes |-> f, artist |-> NULL, preview |-> NULL] : f \in PureFinishes }

\* the maps toJSONStringDirect is called on: every map over the keys of MapKeys
PureMaps ==
  UNION {[keys -> {"1"}] : keys \in SUBSET {MapKeys[i] : i \in 1..Len(MapKeys)}}

\* a call of shouldIncludeCard on a list of printings, the building of the
\* parameters of one printing, or a call of toJSONStringDirect on a list or on
\* a map
InitPure ==
  /\ InitStore
  /\ remote = <<>>
  /\ \/ fin \in {[fn |-> "shouldIncludeCard", arg |-> l] :
                   l \in SeqsUpTo(FilterPrintings, MaxPrintings)}
     \/ fin \in {[fn |-> "UpsertPrintingParams", arg |-> <<p>>] : p \in FinishPrintings}
     \/ fin \in {[fn |-> "toJSONStringDirect", arg |-> <<l>>] : l \in PureGames}
     \/ fin \in {[fn |-> "toJSONStringDirectMap", arg |-> <<m>>] : m \in PureMaps}
  /\ fout = NoResult

\* if !shouldIncludeCard(printings.Data)
CallShouldIncludeCard ==
  /\ fin.fn = "shouldIncludeCard"
  /\ ~fout.done
  /\ fout' = [done |-> TRUE, val |-> shouldIncludeCard(fin.arg)]
  /\ UNCHANGED <<passVars, loaded, remote, passes, snap, fin, wireVars>>

\* printingParams := scryfall.UpsertPrintingParams{...} for the one printing of
\* the argument
CallUpsertPrintingParams ==
  /\ fin.fn = "UpsertPrintingParams"
  /\ ~fout.done
  /\ fout' = [done |-> TRUE, val |-> UpsertPrintingParams(fin.arg[1])]
  /\ UNCHANGED <<passVars, loaded, remote, passes, snap, fin, wireVars>>

\* Games: toJSONStringDirect(printing.Games) on the write path, and on the read
\* path if row.Games != "" { json.Unmarshal([]byte(row.Games), &card.Games) }
CallToJSONStringDirect ==
  /\ fin.fn = "toJSONStringDirect"
  /\ ~fout.done
  /\ LET text == toJSONStringDirect(fin.arg[1])
     IN fout' = [done |-> TRUE,
                 val |-> [text |-> text,
                          err |-> text # <<>> /\ jsonUnmarshalErr(text),
                          parsed |-> IF text # <<>> THEN jsonUnmarshal(text) ELSE <<>>]]
  /\ UNCHANGED <<passVars, loaded, remote, passes, snap, fin, wireVars>>

\* Legalities: toJSONStringDirect(card.Legalities)
CallToJSONStringDirectMap ==
  /\ fin.fn = "toJSONStringDirectMap"
  /\ ~fout.done
  /\ fout' = [done |-> TRUE, val |-> [text |-> toJSONStringDirectMap(fin.arg[1])]]
  /\ UNCHANGED <<passVars, loaded, remote, passes, snap, fin, wireVars>>

NextPure ==
  \/ CallShouldIncludeCard
  \/ CallUpsertPrintingParams
  \/ CallToJSONStringDirect
  \/ CallToJSONStringDirectMap

SpecPure == InitPure /\ [][NextPure]_vars

(***************************************************************************)
(* The wire layer: getCard and searchCards, each called once on a response *)
(* from a bounded set, by a client made from the default options.          *)
(***************************************************************************)
GoodUri == "https://api.scryfall.com/cards/search?q=x"

\* a card object with every member present and well formed
GoodCardBody ==
  [f \in CardFields |->
     IF f = "id" THEN JString("c1")
     ELSE IF f = "name" THEN JString("Bolt")
     ELSE IF f = "oracle_id" THEN JString("o1")
     ELSE JString(GoodUri)]

\* what a member of a card object may hold in place of its good value
WireValues(f) ==
  {JAbsent, JNull, JNumber}
    \cup (IF f \in StringFields \cup PtrFields THEN {} ELSE {JString(s) : s \in UriStrings})

\* the card objects of the model: the good one, the good one with one member
\* replaced, the one with only the members id, name and oracle_id, and {}
CardBodies ==
  {GoodCardBody}
    \cup UNION {{[GoodCardBody EXCEPT ![f] = v] : v \in WireValues(f)} : f \in CardFields}
    \cup {[f \in CardFields |->
             IF f \in StringFields \cup PtrFields THEN GoodCardBody[f] ELSE JAbsent],
          [f \in CardFields |-> JAbsent]}

Statuses == {200, 201, 204, 404, 500}

CardResponses ==
  {[doErr |-> FALSE, status |-> 200, body |-> b] : b \in CardBodies}
    \cup {[doErr |-> d, status |-> s, body |-> GoodCardBody] : d \in BOOLEAN, s \in Statuses}

\* the card objects in the data of a list
ListCards ==
  {GoodCardBody,
   [GoodCardBody EXCEPT !["uri"] = JString("/cards/%zz")],
   [GoodCardBody EXCEPT ![RelatedURI] = JString("https://cdn.example/cards/a b")],
   [GoodCardBody EXCEPT ![SourceURI] = JString(":cards")],
   [GoodCardBody EXCEPT !["id"] = JAbsent]}

NextPageValues ==
  {JAbsent, JNull, JNumber, JString(GoodUri), JString(":cards"), JString("/cards/a b")}

ListBodies ==
  [data : SeqsUpTo(ListCards, MaxResults), next_page : NextPageValues, has_more : BOOLEAN]

ListResponses ==
  {[doErr |-> FALSE, status |-> 200, body |-> b] : b \in ListBodies}
    \cup {[doErr |-> d, status |-> s,
           body |-> [data |-> <<GoodCardBody>>, next_page |-> JNull, has_more |-> FALSE]] :
            d \in BOOLEAN, s \in Statuses}

InitWire ==
  /\ InitStore
  /\ remote = <<>>
  /\ \/ fin \in {[fn |-> "getCard", arg |-> <<[id |-> i, response |-> r]>>] :
                   i \in {"c1", "a/b"}, r \in CardResponses}
     \/ fin \in {[fn |-> "searchCards", arg |-> <<[response |-> r]>>] : r \in ListResponses}
  /\ fout = NoResult

\* card, err := c.getCard(id)
CallGetCard ==
  /\ fin.fn = "getCard"
  /\ ~fout.done
  /\ LET out == getCard(NewClientWithOptions(DefaultClientOptions), fin.arg[1].id,
                        fin.arg[1].response)
     IN fout' = [done |-> TRUE, val |-> [err |-> out.err, result |-> out.result]]
  /\ UNCHANGED <<passVars, loaded, remote, passes, snap, fin, wireVars>>

\* results, err := c.searchCards(searchQuery); if err != nil { return ... };
\* for _, card := range results.Data: the cards the pass goes on to process
CallSearchCards ==
  /\ fin.fn = "searchCards"
  /\ ~fout.done
  /\ LET out == searchCards(NewClientWithOptions(DefaultClientOptions), SearchQuery,
                            fin.arg[1].response)
     IN fout' = [done |-> TRUE,
                 val |-> [err |-> out.err, result |-> out.result,
                          processed |-> IF out.err # NULL THEN <<>> ELSE out.result.Data]]
  /\ UNCHANGED <<passVars, loaded, remote, passes, snap, fin, wireVars>>

NextWire == CallGetCard \/ CallSearchCards

SpecWire == InitWire /\ [][NextWire]_vars

(***************************************************************************)
(* The program of src/main.go: one search, whose result main prints.       *)
(***************************************************************************)
\* client.SearchCards(query) on the given response: the *List and the error it
\* returns.  Where the request succeeds, the list and no error; where it fails,
\* the error with the list as far as it was decoded or, of a SearchCards that
\* returns nil with an error, with nil.
SearchCards(c, query, response, nilOnError) ==
  LET out == searchCards(c, query, response)
  IN [isNil |-> out.err # NULL /\ nilOnError, results |-> out.result, err |-> out.err]

\* nothing printed
NoOutput == [total |-> FALSE, cards |-> <<>>, panic |-> FALSE]

InitMain ==
  /\ InitStore
  /\ remote = <<>>
  /\ fin \in {[fn |-> "main", arg |-> <<[response |-> r]>>] : r \in ListResponses}
  /\ fout = NoResult

\* the outcomes of client.SearchCards(searchQuery) in main, for the client that
\* NewClient("TestApp") returned
MainSearch ==
  {SearchCards(NewClientWithOptions([DefaultClientOptions EXCEPT
                                       !.UserAgent = "TestApp/1.0"]),
               SearchQuery, fin.arg[1].response, nilOnError) : nilOnError \in BOOLEAN}

\* if results, err := client.SearchCards(searchQuery); err != nil { ... } with
\* an error and a list: the body prints results.TotalCards and every card of
\* results.Data
MainPrints ==
  /\ fin.fn = "main"
  /\ ~fout.done
  /\ \E out \in MainSearch :
       /\ out.err # NULL
       /\ ~out.isNil
       /\ fout' = [done |-> TRUE,
                   val |-> [err |-> out.err,
                            output |-> [total |-> TRUE, cards |-> out.results.Data,
                                        panic |-> FALSE]]]
  /\ UNCHANGED <<passVars, loaded, remote, passes, snap, fin, wireVars>>

\* ... with an error and a nil list: results.TotalCards panics
MainPanics ==
  /\ fin.fn = "main"
  /\ ~fout.done
  /\ \E out \in MainSearch :
       /\ out.err # NULL
       /\ out.isNil
       /\ fout' = [done |-> TRUE,
                   val |-> [err |-> out.err, output |-> [NoOutput EXCEPT !.panic = TRUE]]]
  /\ UNCHANGED <<passVars, loaded, remote, passes, snap, fin, wireVars>>

\* ... without an error: the body is skipped and main returns
MainSkips ==
  /\ fin.fn = "main"
  /\ ~fout.done
  /\ \E out \in MainSearch :
       /\ out.err = NULL
       /\ fout' = [done |-> TRUE, val |-> [err |-> out.err, output |-> NoOutput]]
  /\ UNCHANGED <<passVars, loaded, remote, passes, snap, fin, wireVars>>

NextMain == MainPrints \/ MainPanics \/ MainSkips

SpecMain == InitMain /\ [][NextMain]_vars

(***************************************************************************)
(* Clients: NewClient and NewClientWithOptions called one after another,   *)
(* and the requests the clients they returned send.                        *)
(***************************************************************************)
MaxClients == 2

\* the application names of the model, each the sequence of its characters
AppNames ==
  {<<>>, <<" ">>, <<"a">>, <<" ", "a">>, <<"b", "\t">>, <<"\n", "a", " ", "b", " ">>}

\* options of a caller's own: another API URL, user agent and Accept
OwnOptions ==
  [APIURL |-> "http://localhost:8080", UserAgent |-> "own/2.0", Accept |-> "text/csv",
   Client |-> "own http.Client"]

\* the prints_search_uri members of the search results a client works on
PrintsUris ==
  {"", "https://api.scryfall.com/cards/search?q=x", "https://api.scryfall.com/cards/search",
   "https://cdn.example/cards/search?q=x", "https://api.scryfall.com/cards/a%2Fb?q=x",
   "/cards/search?q=x"}

\* a response with the status 200 and a list of one good card
GoodListResponse ==
  [doErr |-> FALSE, status |-> 200,
   body |-> [data |-> <<GoodCardBody>>, next_page |-> JNull, has_more |-> FALSE]]

InitClients ==
  /\ InitStore
  /\ remote = <<>>
  /\ fin = NoCall
  /\ fout = NoResult

\* A variant of NewClient that writes the user agent into a copy of
\* DefaultClientOptions and leaves the package variable alone.
NewClientLocal ==
  /\ Len(clients) < MaxClients
  /\ \E appName \in AppNames :
       LET co == [DefaultClientOptions EXCEPT
                    !.UserAgent = Join(TrimSpace(appName)) \o "/1.0"]
       IN clients' = Append(clients, [via |-> "NewClient", appName |-> appName,
                                      from |-> "default", c |-> NewClientWithOptions(co)])
  /\ UNCHANGED <<passVars, loaded, remote, passes, snap, fin, fout, DefaultClientOptions, req>>

\* c, err := NewClient(appName): writes DefaultClientOptions.UserAgent, then
\* hands DefaultClientOptions to NewClientWithOptions by value
NewClient ==
  /\ Len(clients) < MaxClients
  /\ \E appName \in AppNames :
       /\ DefaultClientOptions' =
            [DefaultClientOptions EXCEPT !.UserAgent = Join(TrimSpace(appName)) \o "/1.0"]
       /\ clients' = Append(clients, [via |-> "NewClient", appName |-> appName,
                                      from |-> "default",
                                      c |-> NewClientWithOptions(DefaultClientOptions')])
  /\ UNCHANGED <<passVars, loaded, remote, passes, snap, fin, fout, req>>

\* c, err := NewClientWithOptions(co), with the caller's own options or with
\* the package variable
NewClientOwn ==
  /\ Len(clients) < MaxClients
  /\ \E from \in {"own", "default"} :
       LET co == IF from = "own" THEN OwnOptions ELSE DefaultClientOptions
       IN clients' = Append(clients, [via |-> "NewClientWithOptions", appName |-> <<>>,
                                      from |-> from, c |-> NewClientWithOptions(co)])
  /\ UNCHANGED <<passVars, loaded, remote, passes, snap, fin, fout, DefaultClientOptions, req>>

\* the request variable after the call out of function fn by client i
Sent(i, fn, uri, out) ==
  [client |-> i, fn |-> fn, sent |-> out.req.Method # "", Method |-> out.req.Method,
   URL |-> out.req.URL, UserAgent |-> out.req.UserAgent, Accept |-> out.req.Accept,
   uri |-> uri, err |-> out.err]

\* c.getCard(id) and c.searchCards(searchQuery) by one of the clients
RequestCard ==
  /\ \E i \in 1..Len(clients) :
       \/ \E id \in {"c1", "a/b"} :
            req' = Sent(i, "getCard", "",
                        getCard(clients[i].c, id,
                                [doErr |-> FALSE, status |-> 200, body |-> GoodCardBody]))
       \/ req' = Sent(i, "searchCards", "",
                      searchCards(clients[i].c, SearchQuery, GoodListResponse))
  /\ UNCHANGED <<passVars, loaded, remote, passes, snap, fin, fout, DefaultClientOptions,
                 clients>>

\* printings, err := c.getCardPrintings(card.PrintsSearchURI.String()) for a
\* card that was decoded from a search result with the member prints_search_uri
RequestPrintings ==
  /\ \E i \in 1..Len(clients), uri \in PrintsUris :
       req' = Sent(i, "getCardPrintings", uri,
                    getCardPrintings(clients[i].c, urlString(urlParse(uri)),
                                     GoodListResponse))
  /\ UNCHANGED <<passVars, loaded, remote, passes, snap, fin, fout, DefaultClientOptions,
                 clients>>

NextClients == NewClient \/ NewClientOwn \/ RequestCard \/ RequestPrintings

SpecClients == InitClients /\ [][NextClients]_vars

(***************************************************************************)
(* Clients made by calls of NewClient that run at the same time: the two   *)
(* statements of a call are two steps, and steps of other calls may come   *)
(* between them.                                                           *)
(***************************************************************************)
\* the client of a call that has not returned yet
NoClient == [baseURL |-> "", userAgent |-> "", accept |-> "", client |-> ""]

\* DefaultClientOptions.UserAgent = fmt.Sprintf("%s/1.0", strings.TrimSpace(appName))
NewClientWrite ==
  /\ Len(clients) < MaxClients
  /\ \E appName \in AppNames :
       /\ DefaultClientOptions' =
            [DefaultClientOptions EXCEPT !.UserAgent = Join(TrimSpace(appName)) \o "/1.0"]
       /\ clients' = Append(clients, [via |-> "NewClient", appName |-> appName,
                                      from |-> "default", c |-> NoClient])
  /\ UNCHANGED <<passVars, loaded, remote, passes, snap, fin, fout, req>>

\* return NewClientWithOptions(DefaultClientOptions): the call reads the package
\* variable as it is by now
NewClientReturn ==
  /\ \E i \in 1..Len(clients) :
       /\ clients[i].c = NoClient
       /\ clients' = [clients EXCEPT ![i].c = NewClientWithOptions(DefaultClientOptions)]
  /\ UNCHANGED <<passVars, loaded, remote, passes, snap, fin, fout, DefaultClientOptions, req>>

NextRace == NewClientWrite \/ NewClientReturn

SpecRace == InitClients /\ [][NextRace]_vars

(***************************************************************************)
(* Two fetch passes against a remote API that answers both alike, with a   *)
(* store that does not fail.                                               *)
(***************************************************************************)
IdemRare == CHOOSE p \in WirePrintings({"p1"}, {"o1"}, {KindRare}) : TRUE
IdemMythic == CHOOSE p \in WirePrintings({"p1"}, {"o1"}, {KindMythic}) : TRUE
IdemOther == CHOOSE p \in WirePrintings({"p1"}, {"o2"}, {KindRare}) : TRUE
IdemSecond == CHOOSE p \in WirePrintings({"p2"}, {"o1"}, {KindMythic}) : TRUE
IdemNil == CHOOSE p \in WirePrintings({"p2"}, {NULL}, {KindRare}) : TRUE
IdemUncommon == CHOOSE p \in WirePrintings({"p1"}, {"o1"}, {KindUncommon}) : TRUE

\* the printing lists the remote API answers with: none, one, the same id with
\* other values and under another card, a second id, a nil oracle_id, a
\* printing the filter rejects
IdemLists ==
  {<<>>, <<IdemRare>>, <<IdemMythic, IdemRare>>, <<IdemRare, IdemOther>>,
   <<IdemRare, IdemSecond>>, <<IdemSecond, IdemNil>>, <<IdemUncommon>>}

IdemCards == WireCards({"o1", NULL}, {NULL, "{R}"}, {<<>>})

\* the remote API answers with up to MaxResults search results, each with its
\* printing list
InitIdem ==
  /\ InitStore
  /\ remote \in SeqsUpTo([card : IdemCards, prints : IdemLists], MaxResults)
  /\ fin = NoCall
  /\ fout = NoResult

\* the answer of the remote API for the search result the outer loop is at
CurrentAnswer ==
  IF pc = "loop" /\ remaining > 0 THEN {remote[Len(remote) - remaining + 1]} ELSE {}

NextIdem ==
  \/ /\ passes < 2
     /\ FetchFilteredScryfallAPI
     /\ passes' = passes + 1
     /\ snap' = <<cards, printings>>
  \/ SearchOK(Len(remote), FALSE)
  \/ \E e \in CurrentAnswer : SkipCard({e.prints})
  \/ \E e \in CurrentAnswer : AcceptCard({e.card}, {e.prints}, {FALSE})
  \/ Panic
  \/ UpsertCardOK
  \/ UpsertPrintingOK
  \/ PrintingsDone
  \/ Return
  \/ Restart

SpecIdem == InitIdem /\ [][NextIdem]_vars

(***************************************************************************)
(* Properties of the fetch pass and the read pass.                         *)
(***************************************************************************)
\* C2: a search result whose printing list the filter rejects leaves both
\* tables as they were: the step that skips it writes no cards row and no
\* printings row.
FilterRejectWritesNothing ==
  [][ev' = "skipped" => (cards' = cards /\ printings' = printings)]_vars

\* a result is rejected while the store holds rows of earlier results
RejectedWithRowsStored == ev = "skipped" /\ cards # {} /\ printings # {}

\* C3: when the processing of an accepted search result with an oracle_id and
\* N printings of pairwise distinct ids has ended (the inner loop is through,
\* or the process has stopped) and no upsert of it has failed, cards holds a
\* row keyed by that oracle_id and printings holds a row keyed by the id of
\* each of the N printings.
AcceptedResultFullyStored ==
  (/\ card.oracle_id # NULL
   /\ \A i, j \in 1..Len(prints) : i # j => prints[i].id # prints[j].id
   /\ ~rowFail
   /\ pc = "panic" \/ (pc = "upsertPrinting" /\ pidx > Len(prints))) =>
    /\ \E r \in cards : r.OracleID = card.oracle_id
    /\ \A i \in 1..Len(prints) : \E r \in printings : r.ID = prints[i].id

\* C6: no step of a fetch pass or of a read pass removes a key from cards or
\* from printings.
KeysNeverShrink ==
  [][CardKeys \subseteq CardKeys' /\ PrintingKeys \subseteq PrintingKeys']_vars

\* a read pass has returned cards, and fetch passes have filled both tables
ReadAfterFetches == ev = "loaded" /\ loaded.cards # {} /\ Cardinality(PrintingKeys) = 2

\* C7: every printings row holds an oracle_id for which cards holds a row.
PrintingsReferenceCards == \A p \in printings : p.OracleID \in CardKeys

\* C8: once the upsert of a printing has failed, the pass does not stop before
\* it has attempted every remaining printing of that card and processed every
\* remaining search result.
PrintingFailureDoesNotAbort == rowFail => pc # "panic"

\* C9: a failing printings fetch writes no row, and the pass goes on with the
\* next search result without asking again.
FetchFailureSkipsResult ==
  [][ev' = "fetchFail" =>
       /\ cards' = cards
       /\ printings' = printings
       /\ pc' = "loop"
       /\ remaining' = remaining - 1]_vars

\* a printings fetch has failed with a search result still to come
FetchFailedMidPass == ev = "fetchFail" /\ remaining > 0 /\ cards # {}

\* C5: when a card or a printing whose key the store already holds is upserted
\* again, the one row under that key holds, in every column, the value of the
\* latest fetch, an absent optional field (mana_cost, artist) included: the
\* column is then stored as absent, whatever it held before.
LastWriteWins ==
  [][/\ ev' = "cardOK" =>
          /\ Cardinality({r \in cards' : r.OracleID = card.oracle_id}) = 1
          /\ \A r \in cards' :
               r.OracleID = card.oracle_id =>
                 /\ r.ManaCost.Valid = (card.mana_cost # NULL)
                 /\ r.ManaCost.Valid => r.ManaCost.String = card.mana_cost
     /\ ev' = "printOK" =>
          /\ Cardinality({r \in printings' : r.ID = prints[pidx].id}) = 1
          /\ \A r \in printings' :
               r.ID = prints[pidx].id =>
                 /\ r.OracleID = prints[pidx].oracle_id
                 /\ r.Rarity = prints[pidx].rarity
                 /\ r.Artist.Valid = (prints[pidx].artist # NULL)
                 /\ r.Artist.Valid => r.Artist.String = prints[pidx].artist
                 /\ jsonUnmarshal(r.Games) = prints[pidx].games
                 /\ jsonUnmarshal(r.Finishes) = prints[pidx].finishes
                 /\ r.Foil = ("foil" \in Range(prints[pidx].finishes))
                 /\ r.Nonfoil = ("nonfoil" \in Range(prints[pidx].finishes))]_vars

\* a stored card that had a mana cost is fetched again without one, and the
\* upsert has replaced the row
AbsentValueOverwrites == ev = "cardOK" /\ hit /\ card.mana_cost = NULL

\* C14: a pass returns only when the search list it fetched last has no page
\* beyond it, and it decides the filter and upserts the printings of a result
\* only when the printing list it fetched last for that result has none: a
\* list with has_more = true is followed by a fetch of its next page.
FullResultCovered ==
  /\ pc = "done" => ~more.results
  /\ (pc = "upsertCard" \/ pc = "upsertPrinting") => ~more.printings

\* C12: an empty list in a compound field of the wire record (colors,
\* color_identity) is stored as the text "[]", never as an absent value.
EmptyContainerStored ==
  [][ev' = "cardOK" =>
       \A r \in cards' :
         r.OracleID = card.oracle_id =>
           /\ card.colors = <<>> => (r.Colors.Valid /\ r.Colors.String = <<"[", "]">>)
           /\ card.color_identity = <<>> => r.ColorIdentity = <<"[", "]">>]_vars

\* C11: every Card that loadCardsFromDatabase returns has a games list that
\* is, as a set, the union of the games lists of the stored printings rows with
\* the card's oracle_id, and that names no platform twice.
GamesAreTheUnion ==
  (loaded.called /\ loaded.err = NULL) =>
    \A c \in loaded.cards :
      /\ Range(c.Games)
           = UNION {Range(jsonUnmarshal(p.Games)) : p \in {r \in printings : r.OracleID = c.ID}}
      /\ \A i, j \in 1..Len(c.Games) : i # j => c.Games[i] # c.Games[j]

(***************************************************************************)
(* Properties of the pure functions.                                       *)
(***************************************************************************)
\* the list with the elements at i and i + 1 exchanged
SwapAt(s, i) ==
  [k \in 1..Len(s) |-> IF k = i THEN s[i + 1] ELSE IF k = i + 1 THEN s[i] ELSE s[k]]

\* C1: shouldIncludeCard returns false exactly when some printing of the list
\* has "arena" among its games and rarity "common" or "uncommon", and true
\* otherwise (the empty list included); exchanging two neighbouring printings,
\* or two neighbouring games of one printing, does not change the result (the
\* arguments range over a set closed under these exchanges, which generate
\* every permutation).
FilterRule ==
  (fout.done /\ fin.fn = "shouldIncludeCard") =>
    /\ fout.val = ~(\E i \in 1..Len(fin.arg) :
                      /\ "arena" \in Range(fin.arg[i].games)
                      /\ fin.arg[i].rarity \in {"common", "uncommon"})
    /\ \A i \in 1..(Len(fin.arg) - 1) : shouldIncludeCard(SwapAt(fin.arg, i)) = fout.val
    /\ \A i \in 1..Len(fin.arg) :
         \A j \in 1..(Len(fin.arg[i].games) - 1) :
           shouldIncludeCard([fin.arg EXCEPT ![i].games = SwapAt(fin.arg[i].games, j)])
             = fout.val

\* the filter has rejected a list whose second printing is the uncommon one,
\* with "arena" the second of its games
RejectedBySecondPrinting ==
  /\ fout.done
  /\ fin.fn = "shouldIncludeCard"
  /\ ~fout.val
  /\ Len(fin.arg) = 2
  /\ fin.arg[1].rarity = "rare"
  /\ fin.arg[2].rarity = "uncommon"
  /\ fin.arg[2].games = <<"paper", "arena">>

\* C10: the foil column of the parameters of a printing upsert is true exactly
\* when the finishes list holds the string "foil", the nonfoil column exactly
\* when it holds "nonfoil"; "etched" and "Foil" set neither.
FoilFlags ==
  (fout.done /\ fin.fn = "UpsertPrintingParams") =>
    /\ fout.val.Foil = ("foil" \in Range(fin.arg[1].finishes))
    /\ fout.val.Nonfoil = ("nonfoil" \in Range(fin.arg[1].finishes))

\* the parameters of a printing with finishes "etched" and "Foil" have neither
\* flag set
EtchedSetsNeither ==
  /\ fout.done
  /\ fin.fn = "UpsertPrintingParams"
  /\ fin.arg[1].finishes = <<"etched", "Foil">>
  /\ ~fout.val.Foil
  /\ ~fout.val.Nonfoil

\* C13: toJSONStringDirect returns the text "[]" for an empty string list and
\* "{}" for an empty string-keyed map, never the empty text and never "null",
\* whatever the argument; parsing the text of a list again on the read path
\* gives no error and the list that was written, the empty list for "[]".
EmptyListRoundTrip ==
  /\ (fout.done /\ fin.fn = "toJSONStringDirect") =>
       /\ Len(fin.arg[1]) = 0 => fout.val.text = <<"[", "]">>
       /\ fout.val.text # <<>>
       /\ fout.val.text # <<"null">>
       /\ ~fout.val.err
       /\ fout.val.parsed = fin.arg[1]
  /\ (fout.done /\ fin.fn = "toJSONStringDirectMap") =>
       /\ DOMAIN fin.arg[1] = {} => fout.val.text = <<"{", "}">>
       /\ fout.val.text # <<>>
       /\ fout.val.text # <<"null">>

\* the empty list has been written as "[]" and parsed again as the empty list
EmptyListReparsed ==
  /\ fout.done
  /\ fin.fn = "toJSONStringDirect"
  /\ Len(fin.arg[1]) = 0
  /\ fout.val.text = <<"[", "]">>
  /\ Len(fout.val.parsed) = 0
  /\ ~fout.val.err

(***************************************************************************)
(* Properties of the wire layer.                                           *)
(***************************************************************************)
\* the response of a call that has returned was received with status 200
Decoded200 ==
  fout.done /\ ~fin.arg[1].response.doErr /\ fin.arg[1].response.status = 200

\* C15: decoding the response of getCard gives an error whenever id, name or
\* oracle_id is absent, null or of another JSON type than string, and no error
\* when these three are strings and every other member is absent or good.
RequiredFieldsChecked ==
  (Decoded200 /\ fin.fn = "getCard") =>
    LET body == fin.arg[1].response.body
        required == StringFields \cup PtrFields
    IN /\ (\E f \in required : body[f].t # "string") => fout.val.err # NULL
       /\ (/\ \A f \in required : body[f].t = "string"
           /\ \A f \in CardFields \ required : body[f] \in {JAbsent, GoodCardBody[f]})
            => fout.val.err = NULL

\* the string is a URI reference of RFC 3986: its path holds no space, no
\* percent sign that starts no escape, and no colon in the first segment of a
\* reference without a scheme
WellFormedURI(s) ==
  UriPartsOf[s].rawpath \notin {"/cards/a b", "/cards/%zz", ":cards"}

\* the member holds no well formed URI: a number, or a string that is none
MalformedURI(v) == v.t = "number" \/ (v.t = "string" /\ ~WellFormedURI(v.s))

\* C16: a response in which a URI-bearing member is malformed (one of the seven
\* URI members of a card, the uri of a related card, the source_uri of a
\* preview, the next_page of a list) is decoded with an error, and the caller
\* of searchCards then processes no card of the list.
MalformedURIFailsDecode ==
  /\ (Decoded200 /\ fin.fn = "getCard") =>
       ((\E f \in UriFields \cup {RelatedURI, SourceURI} :
           MalformedURI(fin.arg[1].response.body[f]))
          => fout.val.err # NULL)
  /\ (Decoded200 /\ fin.fn = "searchCards") =>
       LET body == fin.arg[1].response.body
       IN (\/ MalformedURI(body.next_page)
           \/ \E i \in 1..Len(body.data) :
                \E f \in UriFields \cup {RelatedURI, SourceURI} : MalformedURI(body.data[i][f]))
            => (fout.val.err # NULL /\ fout.val.processed = <<>>)

\* C17: a call whose response has another status than 200 (201 and 204
\* included) returns an error and leaves the zero value in its result: the body
\* is not decoded.
Non200IsAnError ==
  (fout.done /\ ~fin.arg[1].response.doErr /\ fin.arg[1].response.status # 200) =>
    /\ fout.val.err # NULL
    /\ fin.fn = "getCard" => fout.val.result = ZeroCard
    /\ fin.fn = "searchCards" => (fout.val.result = ZeroList /\ fout.val.processed = <<>>)

\* getCard has returned on a response with status 201 and a good body
CreatedIsAnError ==
  /\ fout.done
  /\ fin.fn = "getCard"
  /\ ~fin.arg[1].response.doErr
  /\ fin.arg[1].response.status = 201
  /\ fin.arg[1].response.body = GoodCardBody
  /\ fout.val.err = "status"
  /\ fout.val.result = ZeroCard

\* C20: within a pass, the step that follows the acceptance of a search
\* result is the one card upsert of that result; a printing is upserted only
\* while the cards row that this upsert wrote for the result is in the store;
\* and a card upsert that fails is followed by the next search result (or by
\* the end of the pass) with no printing of the result upserted.
CardUpsertOnceThenPrintings ==
  [][/\ pc = "upsertCard" => (ev' \in {"cardOK", "cardFail"} /\ pc' # "upsertCard")
     /\ ev' \in {"cardOK", "cardFail"} => pc = "upsertCard"
     /\ (ev' \in {"printOK", "printFail"} /\ pc = "upsertPrinting") =>
          UpsertCardParams(card) \in cards
     /\ ev' \in {"printOK", "printFail"} => pc = "upsertPrinting"
     /\ (pc = "upsertCard" /\ ev' = "cardFail") =>
          (printings' = printings /\ pc' = "loop" /\ remaining' = remaining - 1)]_vars

\* C21: starting from an empty store, after any fetch passes and read passes
\* (any answers of the remote API, any failing request, any failing upsert) no
\* row of printings has "arena" among its games and the rarity "common" or
\* "uncommon".
NoLowRarityArenaRow ==
  \A r \in printings :
    ~("arena" \in Range(jsonUnmarshal(r.Games)) /\ r.Rarity \in {"common", "uncommon"})

\* a result is rejected while printings holds the rare arena printing of an
\* earlier result under both printing ids
ArenaRowStoredLowRarityRejected ==
  /\ ev = "skipped"
  /\ PrintingKeys = PrintIds
  /\ \A r \in printings : "arena" \in Range(jsonUnmarshal(r.Games)) /\ r.Rarity = "rare"

\* C22: a search result or a printing without an oracle_id does not abort the
\* pass: no pass stops before queryAndInsertCards returns, and once a result
\* or a printing without an oracle_id is at hand the pass goes on to the next
\* printing or the next search result.
NilOracleIdDoesNotAbort ==
  /\ pc # "panic"
  /\ (pc = "upsertCard" /\ card.oracle_id = NULL) => ENABLED (UpsertCardOK \/ UpsertCardFail)
  /\ (pc = "upsertPrinting" /\ pidx <= Len(prints) /\ prints[pidx].oracle_id = NULL) =>
       ENABLED (UpsertPrintingOK \/ UpsertPrintingFail)

\* C23: when the search request of a pass fails, the pass ends there:
\* queryAndInsertCards returns an error, the failing step follows the call at
\* once and neither it nor the call changes a table, and what comes next is a
\* new call or a read, never the fetch of a printing list or an upsert.
SearchFailureEndsPass ==
  [][/\ ev' = "searchFail" =>
          /\ ev = "call"
          /\ pc' = "done"
          /\ err' # NULL
          /\ cards' = cards /\ printings' = printings
     /\ ev' = "call" => (cards' = cards /\ printings' = printings)
     /\ ev = "searchFail" => ev' \in {"call", "loaded", "loadFail"}]_vars

\* the search of a pass has failed while the store holds rows of earlier passes
SearchFailedOnFilledStore ==
  /\ ev = "searchFail"
  /\ pc = "done"
  /\ err # NULL
  /\ CardKeys = OracleIds
  /\ PrintingKeys = PrintIds

\* the steps that end the processing of a search result
ResultEnded == {"fetchFail", "skipped", "cardFail", "resultDone"}

\* C24: the steps of a pass occur in this order: the search; then for each
\* search result, in the order of the list, the fetch of its printings with
\* the decision of the filter, then the skip or the card upsert followed by
\* the printing upserts in the order of the printing list; a search result is
\* taken up only when the one before it has ended, and the pass returns only
\* when the last one has ended.
StepsInOrder ==
  [][/\ ev' \in {"searchOK", "searchFail"} => ev = "call"
     /\ ev' \in {"fetchFail", "skipped", "accepted"} =>
          (ev \in ResultEnded \cup {"searchOK"} /\ pc = "loop" /\ remaining > 0)
     /\ ev' \in ResultEnded => (remaining' = remaining - 1 /\ pc' = "loop")
     /\ ev' \in {"accepted", "cardOK", "printOK", "printFail"} => remaining' = remaining
     /\ ev' \in {"cardOK", "cardFail"} => ev = "accepted"
     /\ ev' \in {"printOK", "printFail"} =>
          /\ ev \in {"cardOK", "printOK", "printFail"}
          /\ pidx' = pidx + 1
          /\ prints' = prints
     /\ ev' = "cardOK" => pidx' = 1
     /\ ev' = "resultDone" => (ev \in {"cardOK", "printOK", "printFail"} /\ pidx > Len(prints))
     /\ ev' = "return" => (ev \in ResultEnded \cup {"searchOK"} /\ remaining = 0)]_vars

\* the last search result of a pass has ended after its printing upserts, none
\* of which failed, and the store holds two cards and two printings
LastResultEndedInOrder ==
  /\ ev = "resultDone"
  /\ remaining = 0
  /\ rowFail = FALSE
  /\ CardKeys = OracleIds
  /\ PrintingKeys = PrintIds

\* C25: where every remote request and every store call returns, a pass that
\* was started reaches Done: queryAndInsertCards returns.
PassReachesDone == (pc = "search") ~> (pc = "done")

AbsentCompoundStoredNull ==
  [][/\ ev' = "cardOK" =>
          \A r \in cards' :
            (r.OracleID = card.oracle_id /\ card.all_parts = NULL) =>
              (~r.AllParts.Valid /\ r.AllParts.String # <<"null">>)
     /\ ev' = "printOK" =>
          \A r \in printings' :
            (r.ID = prints[pidx].id /\ prints[pidx].preview = NULL) =>
              (~r.Preview.Valid /\ r.Preview.String # <<"null">>)]_vars

(***************************************************************************)
(* Properties of the clients and of the requests they send.                *)
(***************************************************************************)
\* chars without its leading and trailing white space: the stretch of chars
\* that has only white space before it and after it and that is empty or has
\* no white space at either end
IsTrimmed(chars, t) ==
  \E i \in 1..(Len(chars) + 1), j \in 0..Len(chars) :
    /\ i <= j + 1
    /\ t = SubSeq(chars, i, j)
    /\ \A k \in (1..(i - 1)) \cup ((j + 1)..Len(chars)) : chars[k] \in White
    /\ i <= j => (chars[i] \notin White /\ chars[j] \notin White)

\* C18: every request sent by a client that NewClient(appName) returned is a
\* GET whose User-Agent is appName without its leading and trailing white
\* space followed by "/1.0" and whose Accept is
\* "application/json;q=0.9,*/*;q=0.8", whichever clients were made before or
\* after that client.
RequestHeaders ==
  (req.sent /\ clients[req.client].via = "NewClient") =>
    /\ req.Method = "GET"
    /\ \E t \in {SubSeq(clients[req.client].appName, i, j) :
                   i \in 1..(Len(clients[req.client].appName) + 1),
                   j \in 0..Len(clients[req.client].appName)} :
         /\ IsTrimmed(clients[req.client].appName, t)
         /\ req.UserAgent = Join(t) \o "/1.0"
    /\ req.Accept = "application/json;q=0.9,*/*;q=0.8"

\* the first of two clients, made by NewClient("\na b "), has sent a request
\* after NewClient("b\t") made the second
FirstClientKeepsItsName ==
  /\ Len(clients) = 2
  /\ clients[1].via = "NewClient"
  /\ clients[1].appName = <<"\n", "a", " ", "b", " ">>
  /\ clients[2].via = "NewClient"
  /\ clients[2].appName = <<"b", "\t">>
  /\ DefaultClientOptions.UserAgent = "b/1.0"
  /\ req.sent
  /\ req.client = 1
  /\ req.UserAgent = "a b/1.0"

\* the user agent that NewClient derives from appName
IsAgentOf(userAgent, appName) ==
  \E t \in {SubSeq(appName, i, j) : i \in 1..(Len(appName) + 1), j \in 0..Len(appName)} :
    IsTrimmed(appName, t) /\ userAgent = Join(t) \o "/1.0"

\* the user agent DefaultClientOptions holds after the calls that made the
\* first n clients: that of the last NewClient among them, else the initial one
IsDefaultAgentAfter(userAgent, n) ==
  LET calls == {j \in 1..n : clients[j].via = "NewClient"}
  IN IF calls = {} THEN userAgent = "MTGScryfallClient/1.0"
     ELSE IsAgentOf(userAgent, clients[CHOOSE j \in calls : \A k \in calls : k <= j].appName)

\* C26: NewClient(appName) changes the package variable DefaultClientOptions:
\* its UserAgent is that of the last call of NewClient until the next call, a
\* client that NewClientWithOptions(DefaultClientOptions) returns later has
\* that user agent, and APIURL, Accept and Client of DefaultClientOptions stay
\* what they were.
NewClientWritesDefaults ==
  /\ IsDefaultAgentAfter(DefaultClientOptions.UserAgent, Len(clients))
  /\ \A i \in 1..Len(clients) :
       (clients[i].via = "NewClientWithOptions" /\ clients[i].from = "default") =>
         IsDefaultAgentAfter(clients[i].c.userAgent, i - 1)
  /\ DefaultClientOptions.APIURL = "https://api.scryfall.com"
  /\ DefaultClientOptions.Accept = "application/json;q=0.9,*/*;q=0.8"
  /\ DefaultClientOptions.Client = "default http.Client"

\* NewClientWithOptions(DefaultClientOptions), called after NewClient(" a"),
\* has returned a client whose user agent is "a/1.0"
DefaultsCarryTheLastName ==
  /\ Len(clients) = 2
  /\ clients[1].via = "NewClient"
  /\ clients[1].appName = <<" ", "a">>
  /\ clients[2].via = "NewClientWithOptions"
  /\ clients[2].from = "default"
  /\ clients[2].c.userAgent = "a/1.0"
  /\ clients[2].c.userAgent # DefaultUserAgent
  /\ DefaultClientOptions.UserAgent = "a/1.0"

\* C27: when calls of NewClient run at the same time, each client that a call
\* has returned has the user agent derived from the appName of that call.
EachClientItsOwnAgent ==
  \A i \in 1..Len(clients) :
    (clients[i].via = "NewClient" /\ clients[i].c # NoClient) =>
      IsAgentOf(clients[i].c.userAgent, clients[i].appName)

\* C30: main prints the total count and the cards of the search result exactly
\* when the search returned no error; after a failed search it prints nothing
\* of the result.
MainPrintsOnSuccess ==
  (fin.fn = "main" /\ fout.done) =>
    /\ fout.val.output.total = (fout.val.err = NULL)
    /\ fout.val.err # NULL => fout.val.output.cards = <<>>
    /\ ~fout.val.output.panic

\* C19: the request getCardPrintings sends for a card is a GET whose target is
\* the prints_search_uri of that card (the same scheme, host, path and query;
\* a question mark before an empty query makes no difference), whatever the
\* URI and whatever the base URL of the client.
PrintingsTargetIsTheURI ==
  (req.sent /\ req.fn = "getCardPrintings") =>
    /\ req.Method = "GET"
    /\ req.URL = req.uri \/ (req.URL = req.uri \o "?" /\ urlParse(req.uri).RawQuery = "")

(***************************************************************************)
(* Properties of two passes against the same answers.                      *)
(***************************************************************************)
\* C4: when the second of two passes against the same answers has ended (by a
\* return or by a panic), both tables hold what they held when the first had
\* ended, and neither holds two rows with the same primary key value.
Idempotent ==
  (passes = 2 /\ pc \in {"done", "panic", "idle"}) =>
    /\ cards = snap[1]
    /\ printings = snap[2]
    /\ \A r1, r2 \in cards : r1.OracleID = r2.OracleID => r1 = r2
    /\ \A r1, r2 \in printings : r1.ID = r2.ID => r1 = r2

\* the second pass has run through two search results and the store holds rows
SecondPassDone ==
  /\ passes = 2
  /\ pc = "done"
  /\ Len(remote) = 2
  /\ cards # {}
  /\ Cardinality(printings) = 2

====
